---- MODULE Spec2Model ----
(***************************************************************************)
(* Model of filter_repositories.py: a linear script that reads             *)
(* found_repositories.json, splits its top-level entries on the value of   *)
(* the field lastCheckedAt, and writes the two halves to                    *)
(* filtered_2023_or_null.json and filtered_other.json.                      *)
(*                                                                         *)
(* Python values are tagged records [type, val].  A str is a tuple of      *)
(* one-character strings, a dict is a tuple of <<key, value>> pairs with    *)
(* distinct keys in insertion order.  A file's text is a tuple of JSON      *)
(* tokens: json.dump produces it, json.load parses it (whitespace and the   *)
(* indent=2 layout are not represented; string payloads are kept            *)
(* literally, as ensure_ascii=False does).                                  *)
(***************************************************************************)
EXTENDS Integers, Sequences, FiniteSets, TLC

VARIABLES fs, fs0, pc, data, file_a, file_b, idx, out, err, steps

vars == <<fs, fs0, pc, data, file_a, file_b, idx, out, err, steps>>

\* Largest number of top-level entries of an input Dataset.
MaxEntries == 2

-----------------------------------------------------------------------------
(* Python values *)

None == [type |-> "null", val |-> <<>>]
Unbound == [type |-> "unbound", val |-> <<>>]
JBool(b) == [type |-> "bool", val |-> b]
JNum(n) == [type |-> "num", val |-> n]
JStr(s) == [type |-> "str", val |-> s]
JList(s) == [type |-> "list", val |-> s]
JObj(pairs) == [type |-> "object", val |-> pairs]

DictKeys(d) == {d.val[i][1] : i \in 1..Len(d.val)}

HasKey(d, k) == \E i \in 1..Len(d.val) : d.val[i][1] = k

\* d[k] for a key that is present
DictAt(d, k) == d.val[CHOOSE i \in 1..Len(d.val) : d.val[i][1] = k][2]

\* d.get(k, ""): an absent key reads as the empty string
DictGet_EmptyDefault(d, k) == IF HasKey(d, k) THEN DictAt(d, k) ELSE JStr(<<>>)

\* d.get(k): the value, or None when the key is absent
DictGet(d, k) == IF HasKey(d, k) THEN DictAt(d, k) ELSE None

\* d = {k: v}: rebinds the dict instead of adding to it
DictSet_Rebind(d, k, v) == JObj(<< <<k, v>> >>)

\* d[k] = v: replaces in place when k is present, appends otherwise
DictSet(d, k, v) ==
    IF HasKey(d, k)
    THEN JObj([i \in 1..Len(d.val) |->
                 IF d.val[i][1] = k THEN <<k, v>> ELSE d.val[i]])
    ELSE JObj(Append(d.val, <<k, v>>))

\* p in s: the substring test instead of the prefix test
StartsWith_Contains(s, p) ==
    \E i \in 0..(Len(s) - Len(p)) : SubSeq(s, i + 1, i + Len(p)) = p

\* s.startswith(p)
StartsWith(s, p) == Len(s) >= Len(p) /\ SubSeq(s, 1, Len(p)) = p

-----------------------------------------------------------------------------
(* Strings of the program and of its inputs *)

input_file == "found_repositories.json"
output_file_a == "filtered_2023_or_null.json"
output_file_b == "filtered_other.json"
other_file == "README.md"

Paths == {input_file, output_file_a, output_file_b, other_file}

lastCheckedAt == <<"l","a","s","t","C","h","e","c","k","e","d","A","t">>
Prefix2023 == <<"2","0","2","3">>

-----------------------------------------------------------------------------
(* json.dump and json.load over token texts *)

Tok(k, v) == [type |-> k, val |-> v]
P(k) == Tok(k, <<>>)

RECURSIVE json_dumps(_), DumpElems(_, _), DumpMembers(_, _)

json_dumps(v) ==
    CASE v.type = "null" -> <<P("null")>>
      [] v.type = "bool" -> <<P(IF v.val THEN "true" ELSE "false")>>
      [] v.type = "num" -> <<Tok("num", v.val)>>
      [] v.type = "str" -> <<Tok("str", v.val)>>
      [] v.type = "list" -> <<P("[")>> \o DumpElems(v.val, 1) \o <<P("]")>>
      [] v.type = "object" -> <<P("{")>> \o DumpMembers(v.val, 1) \o <<P("}")>>

DumpElems(s, i) ==
    IF i > Len(s) THEN <<>>
    ELSE (IF i > 1 THEN <<P(",")>> ELSE <<>>)
         \o json_dumps(s[i]) \o DumpElems(s, i + 1)

DumpMembers(s, i) ==
    IF i > Len(s) THEN <<>>
    ELSE (IF i > 1 THEN <<P(",")>> ELSE <<>>)
         \o <<Tok("str", s[i][1]), P(":")>>
         \o json_dumps(s[i][2]) \o DumpMembers(s, i + 1)

ParseOk(v, n) == [ok |-> TRUE, val |-> v, next |-> n]
ParseFail == [ok |-> FALSE, val |-> None, next |-> 0]

RECURSIVE ParseValue(_, _), ParseElems(_, _, _), ParseMembers(_, _, _)

ParseValue(t, i) ==
    IF i > Len(t) THEN ParseFail
    ELSE LET k == t[i].type IN
         CASE k = "null" -> ParseOk(None, i + 1)
           [] k = "true" -> ParseOk(JBool(TRUE), i + 1)
           [] k = "false" -> ParseOk(JBool(FALSE), i + 1)
           [] k = "num" -> ParseOk(JNum(t[i].val), i + 1)
           [] k = "str" -> ParseOk(JStr(t[i].val), i + 1)
           [] k = "[" ->
                IF i + 1 <= Len(t) /\ t[i + 1].type = "]"
                THEN ParseOk(JList(<<>>), i + 2)
                ELSE ParseElems(t, i + 1, <<>>)
           [] k = "{" ->
                IF i + 1 <= Len(t) /\ t[i + 1].type = "}"
                THEN ParseOk(JObj(<<>>), i + 2)
                ELSE ParseMembers(t, i + 1, <<>>)
           [] OTHER -> ParseFail

ParseElems(t, i, acc) ==
    LET r == ParseValue(t, i) IN
    IF ~r.ok \/ r.next > Len(t) THEN ParseFail
    ELSE IF t[r.next].type = "," THEN ParseElems(t, r.next + 1, Append(acc, r.val))
    ELSE IF t[r.next].type = "]" THEN ParseOk(JList(Append(acc, r.val)), r.next + 1)
    ELSE ParseFail

\* dict(pairs): a repeated key keeps its first position and its last value
RECURSIVE DictOfPairs(_, _)
DictOfPairs(ps, i) ==
    IF i > Len(ps) THEN <<>>
    ELSE LET k == ps[i][1]
             last == CHOOSE j \in i..Len(ps) :
                       ps[j][1] = k /\ \A m \in (j + 1)..Len(ps) : ps[m][1] # k
         IN  (IF \E j \in 1..(i - 1) : ps[j][1] = k
              THEN <<>> ELSE << <<k, ps[last][2]>> >>)
             \o DictOfPairs(ps, i + 1)

\* acc: the <<key, value>> pairs read so far
ParseMembers(t, i, acc) ==
    IF i + 1 > Len(t) \/ t[i].type # "str" \/ t[i + 1].type # ":" THEN ParseFail
    ELSE LET r == ParseValue(t, i + 2) IN
         IF ~r.ok \/ r.next > Len(t) THEN ParseFail
         ELSE IF t[r.next].type = ","
              THEN ParseMembers(t, r.next + 1, Append(acc, <<t[i].val, r.val>>))
         ELSE IF t[r.next].type = "}"
              THEN ParseOk(JObj(DictOfPairs(Append(acc, <<t[i].val, r.val>>), 1)),
                           r.next + 1)
         ELSE ParseFail

\* json.loads: the whole text must be one value
json_loads(t) ==
    LET r == ParseValue(t, 1) IN
    IF r.ok /\ r.next = Len(t) + 1 THEN [ok |-> TRUE, val |-> r.val]
    ELSE [ok |-> FALSE, val |-> None]

-----------------------------------------------------------------------------
(* Inputs: the Datasets, the other JSON roots and the broken texts that    *)
(* found_repositories.json may hold when the script starts                  *)

S_empty == <<>>
S_202 == <<"2","0","2">>
S_2023_date == <<"2","0","2","3","-","0","5","-","0","1","T","0","0",":","0","0",":","0","0","Z">>
S_2022_date == <<"2","0","2","2","-","1","1","-","0","1">>
S_2024_date == <<"2","0","2","4","-","0","1","-","0","1">>
S_space_2023 == <<" ","2","0","2","3">>
S_name == <<"n","a","m","e">>
S_bump == <<"b","u","m","p">>

Strings == {S_empty, S_202, Prefix2023, S_2023_date, S_2022_date,
            S_2024_date, S_space_2023}

\* values of lastCheckedAt that are neither null nor a string
NonStrings == {JNum(2023), JBool(FALSE), JList(<<>>), JObj(<<>>)}

\* a Record: a JSON object, with or without the field lastCheckedAt
Records ==
    {JObj(<<>>), JObj(<< <<S_name, JStr(S_bump)>> >>)}
    \cup {JObj(<< <<lastCheckedAt, v>> >>) :
            v \in {None} \cup {JStr(s) : s \in Strings} \cup NonStrings}
    \cup {JObj(<< <<S_name, JStr(S_bump)>>, <<lastCheckedAt, JStr(S_2023_date)>> >>)}

\* entry values that are not objects
NonRecords == {JNum(5), None}

EntryValues == Records \cup NonRecords

Key(i) == <<"r", ToString(i)>>

Datasets ==
    UNION {{JObj([i \in 1..n |-> <<Key(i), vs[i]>>]) : vs \in [1..n -> EntryValues]} :
             n \in 0..MaxEntries}

NonObjectRoots ==
    {JList(<<>>), JList(<<JObj(<< <<lastCheckedAt, None>> >>)>>),
     JStr(Prefix2023), JNum(2023), JBool(TRUE), None}

\* an object text that names the key r1 twice
DupKeyText ==
    <<P("{"), Tok("str", Key(1)), P(":")>> \o json_dumps(JObj(<< <<lastCheckedAt, JStr(S_2022_date)>> >>))
    \o <<P(","), Tok("str", Key(1)), P(":")>> \o json_dumps(JObj(<< <<lastCheckedAt, None>> >>))
    \o <<P("}")>>

\* texts that are not JSON: an empty file, a truncated object, trailing tokens
InvalidTexts ==
    {<<>>,
     <<P("{"), Tok("str", Key(1)), P(":"), P("null")>>,
     <<P("{"), P("}"), P("}")>>}

InputTexts ==
    {json_dumps(v) : v \in Datasets \cup NonObjectRoots}
    \cup {DupKeyText} \cup InvalidTexts

File(text) == [exists |-> TRUE, text |-> text]
NoFile == [exists |-> FALSE, text |-> <<>>]

\* what an earlier run left at the two output paths
OldTextA == json_dumps(JObj(<< <<Key(0), JObj(<< <<lastCheckedAt, None>> >>)>> >>))
OldTextB == json_dumps(JObj(<< <<Key(0), JObj(<< <<lastCheckedAt, JStr(S_2022_date)>> >>)>> >>))

PriorOutputs == {<<NoFile, NoFile>>, <<File(OldTextA), File(OldTextB)>>}

InitialFileSystems ==
    {[p \in Paths |->
        CASE p = input_file -> i
          [] p = output_file_a -> o[1]
          [] p = output_file_b -> o[2]
          [] OTHER -> File(<<Tok("str", S_bump)>>)] :
       i \in {NoFile} \cup {File(t) : t \in InputTexts}, o \in PriorOutputs}

-----------------------------------------------------------------------------
(* The script *)

NoError == [kind |-> "none", step |-> "none"]

Init ==
    /\ fs0 \in InitialFileSystems
    /\ fs = fs0
    /\ pc = "read"
    /\ data = Unbound
    /\ file_a = Unbound
    /\ file_b = Unbound
    /\ idx = 0
    /\ out = <<>>
    /\ err = NoError
    /\ steps = <<>>

\* an uncaught exception ends the run
Fail(kind, step) ==
    /\ pc' = "failed"
    /\ err' = [kind |-> kind, step |-> step]

\* Python truthiness: None, False, 0, "", [] and {} are falsy
Falsy(v) ==
    \/ v.type = "null"
    \/ (v.type = "bool" /\ ~v.val)
    \/ (v.type = "num" /\ v.val = 0)
    \/ (v.type \in {"str", "list", "object"} /\ v.val = <<>>)

\* (data or {}).items(): a falsy root iterates as an empty dict
ItemsRaises_FalsyOk(d) == d.type # "object" /\ ~Falsy(d)

\* data.items() raises AttributeError unless data is a dict
ItemsRaises(d) == d.type # "object"

\* value["lastCheckedAt"]: raises for a dict without the key as well
GetRaises_Subscript(value) ==
    IF value.type # "object" THEN TRUE ELSE ~HasKey(value, lastCheckedAt)

\* value.get raises AttributeError unless value is a dict
GetRaises(value) == value.type # "object"

\* not last_checked or (...): every falsy value counted as null
Matches_Falsy(last_checked) ==
    \/ Falsy(last_checked)
    \/ (last_checked.type = "str" /\ StartsWith(last_checked.val, Prefix2023))

\* last_checked is None or (isinstance(last_checked, str) and last_checked.startswith("2023"))
Matches(last_checked) ==
    \/ last_checked = None
    \/ (last_checked.type = "str" /\ StartsWith(last_checked.val, Prefix2023))

\* with open(input_file, "r") as f: data = json.load(f)
ReadInput ==
    /\ pc = "read"
    /\ \/ /\ ~fs[input_file].exists
          /\ Fail("IOError", "read")
          /\ UNCHANGED <<data, steps>>
       \/ /\ fs[input_file].exists
          /\ ~json_loads(fs[input_file].text).ok
          /\ Fail("ParseError", "read")
          /\ UNCHANGED <<data, steps>>
       \/ /\ fs[input_file].exists
          /\ json_loads(fs[input_file].text).ok
          /\ data' = json_loads(fs[input_file].text).val
          /\ pc' = "init"
          /\ steps' = Append(steps, "read")
          /\ UNCHANGED err
    /\ UNCHANGED <<fs, fs0, file_a, file_b, idx, out>>

\* the output files opened for writing before the classification
InitPartitions_OpensOutputs ==
    /\ pc = "init"
    /\ file_a' = JObj(<<>>)
    /\ file_b' = JObj(<<>>)
    /\ fs' = [fs EXCEPT ![output_file_a] = File(<<>>), ![output_file_b] = File(<<>>)]
    /\ pc' = "items"
    /\ UNCHANGED <<fs0, data, idx, out, err, steps>>

\* file_a = {}; file_b = {}
InitPartitions ==
    /\ pc = "init"
    /\ file_a' = JObj(<<>>)
    /\ file_b' = JObj(<<>>)
    /\ pc' = "items"
    /\ UNCHANGED <<fs, fs0, data, idx, out, err, steps>>

\* for key, value in data.items(): the call of items()
StartLoop ==
    /\ pc = "items"
    /\ \/ /\ ItemsRaises(data)
          /\ Fail("AttributeError", "classify")
       \/ /\ ~ItemsRaises(data)
          /\ pc' = "loop"
          /\ UNCHANGED err
    /\ UNCHANGED <<fs, fs0, data, file_a, file_b, idx, out, steps>>

\* one iteration of the loop body, on the entry after the idx classified ones
LoopBody ==
    /\ pc = "loop"
    /\ idx < Len(data.val)
    /\ LET key == data.val[idx + 1][1]
           value == data.val[idx + 1][2]
       IN  \/ /\ GetRaises(value)
              /\ Fail("AttributeError", "classify")
              /\ UNCHANGED <<file_a, file_b, idx>>
           \/ /\ ~GetRaises(value)
              /\ Matches(DictGet(value, lastCheckedAt))
              /\ file_a' = DictSet(file_a, key, value)
              /\ idx' = idx + 1
              /\ UNCHANGED <<file_b, pc, err>>
           \/ /\ ~GetRaises(value)
              /\ ~Matches(DictGet(value, lastCheckedAt))
              /\ file_b' = DictSet(file_b, key, value)
              /\ idx' = idx + 1
              /\ UNCHANGED <<file_a, pc, err>>
    /\ UNCHANGED <<fs, fs0, data, out, steps>>

\* the iterator is exhausted
LoopEnd ==
    /\ pc = "loop"
    /\ idx = Len(data.val)
    /\ pc' = "write_a"
    /\ steps' = Append(steps, "classify")
    /\ UNCHANGED <<fs, fs0, data, file_a, file_b, idx, out, err>>

\* open(path, "a"): the text is appended to what the file holds
WriteOutput_Append(path, obj, step, nextpc) ==
    LET text == json_dumps(obj) IN
    \/ /\ Fail("IOError", step)
       /\ UNCHANGED <<fs, steps>>
    \/ /\ fs' = [fs EXCEPT ![path] = File(fs[path].text \o text)]
       /\ pc' = nextpc
       /\ steps' = Append(steps, step)
       /\ UNCHANGED err

\* try/except around the write: a failed write is skipped and the run goes on
WriteOutput_Swallow(path, obj, step, nextpc) ==
    LET text == json_dumps(obj) IN
    \/ /\ pc' = nextpc
       /\ UNCHANGED <<fs, steps, err>>
    \/ /\ fs' = [fs EXCEPT ![path] = File(text)]
       /\ pc' = nextpc
       /\ steps' = Append(steps, step)
       /\ UNCHANGED err

\* with open(path, "w") as f: json.dump(obj, f, indent=2, ensure_ascii=False)
\* open may fail and leave the file alone; once open has truncated the file a
\* failing write leaves any prefix of the text
WriteOutput(path, obj, step, nextpc) ==
    LET text == json_dumps(obj) IN
    \/ /\ Fail("IOError", step)
       /\ UNCHANGED <<fs, steps>>
    \/ /\ \E n \in 0..Len(text) :
            fs' = [fs EXCEPT ![path] = File(SubSeq(text, 1, n))]
       /\ Fail("IOError", step)
       /\ UNCHANGED steps
    \/ /\ fs' = [fs EXCEPT ![path] = File(text)]
       /\ pc' = nextpc
       /\ steps' = Append(steps, step)
       /\ UNCHANGED err

WriteA ==
    /\ pc = "write_a"
    /\ WriteOutput(output_file_a, file_a, "write_a", "write_b")
    /\ UNCHANGED <<fs0, data, file_a, file_b, idx, out>>

\* json.dump(file_a, f, ...) repeated for the second file
WriteB_DumpsFileA ==
    /\ pc = "write_b"
    /\ WriteOutput(output_file_b, file_a, "write_b", "print")
    /\ UNCHANGED <<fs0, data, file_a, file_b, idx, out>>

WriteB ==
    /\ pc = "write_b"
    /\ WriteOutput(output_file_b, file_b, "write_b", "print")
    /\ UNCHANGED <<fs0, data, file_a, file_b, idx, out>>

\* print(f"... {output_file_a} ... {output_file_b}")
PrintDone ==
    /\ pc = "print"
    /\ out' = Append(out, <<output_file_a, output_file_b>>)
    /\ pc' = "done"
    /\ steps' = Append(steps, "print")
    /\ UNCHANGED <<fs, fs0, data, file_a, file_b, idx, err>>

Next ==
    \/ ReadInput
    \/ InitPartitions
    \/ StartLoop
    \/ LoopBody
    \/ LoopEnd
    \/ WriteA
    \/ WriteB
    \/ PrintDone

Spec == Init /\ [][Next]_vars

-----------------------------------------------------------------------------
(* Properties *)

\* the steps of a run, in the order of the script
Order == <<"read", "classify", "write_a", "write_b", "print">>

Did(step) == \E i \in 1..Len(steps) : steps[i] = step

\* the loop has been entered on a dict: idx entries have been classified
InLoop == data.type = "object" /\ file_a # Unbound

KeyOf(i) == data.val[i][1]
ValueOf(i) == data.val[i][2]

\* entry i went to file_a, unmodified, and not to file_b
InAOnly(i) ==
    /\ HasKey(file_a, KeyOf(i)) /\ DictAt(file_a, KeyOf(i)) = ValueOf(i)
    /\ ~HasKey(file_b, KeyOf(i))

\* entry i went to file_b, unmodified, and not to file_a
InBOnly(i) ==
    /\ HasKey(file_b, KeyOf(i)) /\ DictAt(file_b, KeyOf(i)) = ValueOf(i)
    /\ ~HasKey(file_a, KeyOf(i))

\* the parsed root of the input file as it was when the run began
Root0 == json_loads(fs0[input_file].text)

\* C1: once the loop runs on a dict, the key sets of file_a and file_b are
\* disjoint and their union is the set of keys classified so far; when the
\* loop has finished their union is the key set of the input Dataset.
C1_Partition ==
    InLoop =>
      /\ DictKeys(file_a) \cap DictKeys(file_b) = {}
      /\ DictKeys(file_a) \cup DictKeys(file_b) = {KeyOf(i) : i \in 1..idx}
      /\ Cardinality(DictKeys(file_a)) = Len(file_a.val)
      /\ Cardinality(DictKeys(file_b)) = Len(file_b.val)
      /\ (Did("classify") =>
            DictKeys(file_a) \cup DictKeys(file_b) = DictKeys(data))

C1_Witness ==
    /\ pc = "done"
    /\ Len(data.val) >= 2
    /\ \A i \in 1..Len(data.val) : ValueOf(i).type = "object"
    /\ DictKeys(file_a) # {}
    /\ DictKeys(file_b) # {}

\* C2: a classified entry whose record has no lastCheckedAt field, or has it
\* null, is in file_a and not in file_b.
C2_NullOrAbsentInA ==
    InLoop =>
      \A i \in 1..idx :
        (\/ ~HasKey(ValueOf(i), lastCheckedAt)
         \/ DictAt(ValueOf(i), lastCheckedAt) = None) => InAOnly(i)

C2_Witness ==
    /\ pc = "done"
    /\ \E i, j \in 1..idx :
         /\ ~HasKey(ValueOf(i), lastCheckedAt)
         /\ HasKey(ValueOf(j), lastCheckedAt)
         /\ DictAt(ValueOf(j), lastCheckedAt) = None
         /\ InAOnly(i) /\ InAOnly(j)

FirstFourAre2023(s) ==
    Len(s) >= 4 /\ s[1] = "2" /\ s[2] = "0" /\ s[3] = "2" /\ s[4] = "3"

\* C3: a classified entry whose lastCheckedAt is a string is in file_a (only)
\* when the string's first four characters are "2023" and in file_b (only)
\* otherwise, strings shorter than four characters included.
C3_StringPrefix ==
    InLoop =>
      \A i \in 1..idx :
        (HasKey(ValueOf(i), lastCheckedAt)
           /\ DictAt(ValueOf(i), lastCheckedAt).type = "str") =>
          IF FirstFourAre2023(DictAt(ValueOf(i), lastCheckedAt).val)
          THEN InAOnly(i) ELSE InBOnly(i)

C3_Witness ==
    /\ pc = "done"
    /\ \E i, j \in 1..idx :
         /\ ValueOf(i) = JObj(<< <<lastCheckedAt, JStr(S_202)>> >>)
         /\ ValueOf(j) = JObj(<< <<lastCheckedAt, JStr(S_2023_date)>> >>)
         /\ InBOnly(i) /\ InAOnly(j)

\* C4: a classified entry whose lastCheckedAt is present and is neither null
\* nor a string (a number, a boolean, a list, an object) is in file_b and
\* not in file_a.
C4_NonStringInB ==
    InLoop =>
      \A i \in 1..idx :
        (HasKey(ValueOf(i), lastCheckedAt)
           /\ DictAt(ValueOf(i), lastCheckedAt).type \notin {"null", "str"}) =>
          InBOnly(i)

C4_Witness ==
    /\ pc = "done"
    /\ \E i, j \in 1..idx :
         /\ DictGet(ValueOf(i), lastCheckedAt) = JNum(2023)
         /\ DictGet(ValueOf(j), lastCheckedAt) = JBool(FALSE)
         /\ InBOnly(i) /\ InBOnly(j)

\* C5: when both outputs are written, parsing them back gives two objects
\* whose keys together are the keys of the input Dataset, each key mapped to
\* the record it had in the input.
C5_RoundTrip ==
    Did("write_b") =>
      LET a == json_loads(fs[output_file_a].text)
          b == json_loads(fs[output_file_b].text)
      IN  /\ a.ok /\ a.val.type = "object"
          /\ b.ok /\ b.val.type = "object"
          /\ DictKeys(a.val) \cup DictKeys(b.val) = DictKeys(data)
          /\ \A k \in DictKeys(a.val) : DictAt(a.val, k) = DictAt(data, k)
          /\ \A k \in DictKeys(b.val) : DictAt(b.val, k) = DictAt(data, k)

C5_Witness ==
    /\ pc = "done"
    /\ Len(file_a.val) >= 1
    /\ Len(file_b.val) >= 1
    /\ \E i \in 1..idx : Len(ValueOf(i).val) = 2

\* C6: an input that is valid JSON with a root that is not an object never
\* has an entry classified, never writes or prints and never completes: the
\* run goes on until data.items() raises AttributeError and stops there.
C6_NonObjectRootFatal ==
    (fs0[input_file].exists /\ Root0.ok /\ Root0.val.type # "object") =>
      /\ pc \in {"read", "init", "items", "failed"}
      /\ idx = 0
      /\ file_a \in {Unbound, JObj(<<>>)}
      /\ file_b \in {Unbound, JObj(<<>>)}
      /\ fs = fs0
      /\ out = <<>>
      /\ (pc = "failed" =>
            err = [kind |-> "AttributeError", step |-> "classify"])
      /\ (pc # "failed" => ENABLED Next)

C6_Witness ==
    /\ pc = "failed"
    /\ data = JList(<<>>)
    /\ err = [kind |-> "AttributeError", step |-> "classify"]

FailedClassifying == pc = "failed" /\ err.step = "classify"

\* C7 as stated: with an object root the loop never raises, whatever the
\* entry values are.
C7_Original == data.type = "object" => ~FailedClassifying

\* C7: with an object root whose entry values are all objects the loop never
\* raises, whether or not an entry has the field lastCheckedAt, and goes on
\* until every entry is classified.
C7_RecordsNeverRaise ==
    (data.type = "object"
       /\ \A i \in 1..Len(data.val) : ValueOf(i).type = "object") =>
      /\ ~FailedClassifying
      /\ (pc \in {"init", "items", "loop"} => ENABLED Next)
      /\ (Did("classify") => idx = Len(data.val))

C7_Witness ==
    /\ pc = "write_a"
    /\ \E i, j \in 1..idx :
         /\ ~HasKey(ValueOf(i), lastCheckedAt)
         /\ HasKey(ValueOf(j), lastCheckedAt)

\* C8: the completed steps are always an initial part of read, classify,
\* write A, write B, print; a run fails in the step after its last completed
\* one and completes nothing afterwards; what a completed step did stays
\* (once written, file A keeps its text; a failed write of B leaves A written
\* and the message unprinted).
C8_Safe ==
    /\ Len(steps) <= Len(Order)
    /\ steps = SubSeq(Order, 1, Len(steps))
    /\ (pc = "failed" =>
          Len(steps) < Len(Order) /\ err.step = Order[Len(steps) + 1])
    /\ (pc = "done" <=> Did("print"))
    /\ (out # <<>> <=> Did("print"))
    /\ (Did("read") <=> data # Unbound)
    /\ (Did("write_a") => fs[output_file_a] = File(json_dumps(file_a)))
    /\ (~Did("classify") => fs = fs0)
    /\ (~Did("write_a") => fs[output_file_b] = fs0[output_file_b])
    /\ ((pc = "failed" /\ err.step = "write_b") =>
          fs[output_file_a] = File(json_dumps(file_a)) /\ out = <<>>)

C8_Sequential ==
    /\ []C8_Safe
    /\ [][/\ (steps' = steps \/ steps' = Append(steps, Order[Len(steps) + 1]))
          /\ (pc = "failed" => pc' = "failed" /\ steps' = steps)]_vars

C8_Witness ==
    /\ pc = "failed"
    /\ err.step = "write_b"
    /\ steps = <<"read", "classify", "write_a">>
    /\ fs[output_file_a] = File(json_dumps(file_a))
    /\ fs[output_file_a] # fs0[output_file_a]
    /\ Len(file_a.val) >= 1

\* C9: after a completed run each output file holds exactly the text of its
\* partition, whatever it held before (an empty partition gives the text of
\* the empty object), and every other file, the input included, holds what
\* it held when the run began.
C9_Frame ==
    pc = "done" =>
      /\ fs[output_file_a] = File(json_dumps(file_a))
      /\ fs[output_file_b] = File(json_dumps(file_b))
      /\ (file_a = JObj(<<>>) => fs[output_file_a].text = <<P("{"), P("}")>>)
      /\ (file_b = JObj(<<>>) => fs[output_file_b].text = <<P("{"), P("}")>>)
      /\ \A p \in Paths \ {output_file_a, output_file_b} : fs[p] = fs0[p]

C9_Witness ==
    /\ pc = "done"
    /\ data = JObj(<<>>)
    /\ fs0[output_file_a] = File(OldTextA)
    /\ fs0[output_file_b] = File(OldTextB)
    /\ fs[output_file_a].text = <<P("{"), P("}")>>
    /\ fs[output_file_b].text = <<P("{"), P("}")>>

\* C10: a run that failed while reading or classifying has left both output
\* paths as they were when it began.
C10_NoOutputBeforeWrites ==
    (pc = "failed" /\ err.step \in {"read", "classify"}) =>
      /\ fs[output_file_a] = fs0[output_file_a]
      /\ fs[output_file_b] = fs0[output_file_b]

C10_Witness ==
    /\ pc = "failed"
    /\ err = [kind |-> "AttributeError", step |-> "classify"]
    /\ idx = 1
    /\ fs0[output_file_a] = File(OldTextA)
    /\ fs[output_file_a] = File(OldTextA)
    /\ fs[output_file_b] = File(OldTextB)

====
